---- MODULE Spec2Model ----
(***************************************************************************)
(* authselect: the profile-catalog merger (lib/authselect_dir.c) and the   *)
(* configuration-state verifier (lib/authselect_check.c with the probes of *)
(* lib/authselect_util.c).                                                 *)
(*                                                                         *)
(* C strings are sequences of byte values (ASCII codes); the terminating   *)
(* NUL is implicit: reading past the last byte of a string yields 0.       *)
(***************************************************************************)
EXTENDS Integers, Sequences, FiniteSets, TLC

VARIABLES
    \* ---- authselect_merge_profiles ----
    profile,        \* struct authselect_dir *profile: dir->profiles
    vendor,         \* struct authselect_dir *vendor: dir->profiles
    custom,         \* struct authselect_dir *custom: dir->profiles
    merged,         \* "none" before the call, "ids" / "NULL": what was returned
    ids,            \* the returned char ** array (NULL slots included)
    \* ---- check_content ----
    content,        \* bytes of the file, as a C string
    expected,       \* expected body
    cmp,            \* <<>> before the call, <<b>> once check_content returned b
    \* ---- the verifier ----
    fs,             \* the objects at the paths the verifier looks at
    faults,         \* probes that fail for a reason the objects do not show
    op,             \* "idle", or the operation that has run
    conf_ret,       \* what authselect_read_conf returned in the run
    cat_ret,        \* what authselect_cat returned in the run
    ret,            \* the operation's return value
    is_valid,       \* the caller's bool behind _is_valid / _exist: <<>> until written
    log,            \* the ERROR and WARN messages of the run, in order
    probes          \* the filesystem probes of the run and their results, in order

mvars == <<profile, vendor, custom, merged, ids>>
cvars == <<content, expected, cmp>>
vvars == <<fs, faults, op, conf_ret, cat_ret, ret, is_valid, log, probes>>
vars == <<mvars, cvars, vvars>>

(***************************************************************************)
(* Bounds of the model.                                                    *)
(***************************************************************************)
\* longest directory listing handed to the merger
MaxListing == 2
\* longest file content handed to check_content
MaxContent == 7
\* longest expected body handed to check_content
MaxExpected == 1
\* most probes of one run that fail for a reason the objects do not show
MaxFaults == 1

(***************************************************************************)
(* C strings.                                                              *)
(***************************************************************************)
\* the NULL pointer, as an array slot: no string has a negative byte
NULL == <<-1>>

\* s[i] of a C string, 1-based, with the terminating NUL
CharAt(s, i) == IF i <= Len(s) THEN s[i] ELSE 0

RECURSIVE StrcmpFrom(_, _, _)
StrcmpFrom(a, b, i) ==
    IF CharAt(a, i) # CharAt(b, i)
    THEN (IF CharAt(a, i) < CharAt(b, i) THEN -1 ELSE 1)
    ELSE IF CharAt(a, i) = 0 THEN 0
    ELSE StrcmpFrom(a, b, i + 1)

\* strcmp(3): the sign of the first differing byte (unsigned), 0 if none
strcmp(a, b) == StrcmpFrom(a, b, 1)

RECURSIVE StrncmpFrom(_, _, _, _)
StrncmpFrom(a, b, n, i) ==
    IF i > n THEN 0
    ELSE IF CharAt(a, i) # CharAt(b, i)
    THEN (IF CharAt(a, i) < CharAt(b, i) THEN -1 ELSE 1)
    ELSE IF CharAt(a, i) = 0 THEN 0
    ELSE StrncmpFrom(a, b, n, i + 1)

\* strncmp(3): strcmp over at most n bytes
strncmp(a, b, n) == StrncmpFrom(a, b, n, 1)

RECURSIVE StrchrFrom(_, _, _)
StrchrFrom(s, c, i) ==
    IF i > Len(s) THEN 0
    ELSE IF s[i] = c THEN i
    ELSE StrchrFrom(s, c, i + 1)

(***************************************************************************)
(* Profile identifiers.                                                    *)
(***************************************************************************)
\* "custom/"
CustomPrefix == <<99, 117, 115, 116, 111, 109, 47>>

\* authselect_profile_custom_id(name): "custom/" name
authselect_profile_custom_id(name) == CustomPrefix \o name

\* authselect_is_custom_profile(id, NULL): id starts with "custom/"
authselect_is_custom_profile(id) ==
    strncmp(id, CustomPrefix, Len(CustomPrefix)) = 0

(***************************************************************************)
(* The merger.                                                             *)
(***************************************************************************)
sort_profile_ids_nullfirst(str_a, str_b) ==
    IF str_a = NULL THEN -1
    ELSE IF str_b = NULL THEN 1
    ELSE IF authselect_is_custom_profile(str_a) /\ ~authselect_is_custom_profile(str_b)
    THEN 1
    ELSE IF ~authselect_is_custom_profile(str_a) /\ authselect_is_custom_profile(str_b)
    THEN -1
    ELSE strcmp(str_a, str_b)

sort_profile_ids_nocustom(str_a, str_b) ==
    IF str_a = NULL THEN 1
    ELSE IF str_b = NULL THEN -1
    ELSE strcmp(str_a, str_b)

sort_profile_ids_unordered(str_a, str_b) ==
    IF str_a = NULL THEN 1
    ELSE IF str_b = NULL THEN -1
    ELSE IF authselect_is_custom_profile(str_a) /\ ~authselect_is_custom_profile(str_b)
    THEN 1
    ELSE IF ~authselect_is_custom_profile(str_a) /\ authselect_is_custom_profile(str_b)
    THEN -1
    ELSE 0

\* the comparator handed to qsort
sort_profile_ids(str_a, str_b) ==
    IF str_a = NULL THEN 1
    ELSE IF str_b = NULL THEN -1
    ELSE IF authselect_is_custom_profile(str_a) /\ ~authselect_is_custom_profile(str_b)
    THEN 1
    ELSE IF ~authselect_is_custom_profile(str_a) /\ authselect_is_custom_profile(str_b)
    THEN -1
    ELSE strcmp(str_a, str_b)

\* x put into the sorted sequence s, after the elements that do not compare
\* greater than it
RECURSIVE Insert(_, _)
Insert(s, x) ==
    IF s = <<>> THEN <<x>>
    ELSE IF sort_profile_ids(Head(s), x) > 0 THEN <<x>> \o s
    ELSE <<Head(s)>> \o Insert(Tail(s), x)

RECURSIVE InsertionSort(_)
InsertionSort(s) == IF s = <<>> THEN <<>> ELSE Insert(InsertionSort(SubSeq(s, 1, Len(s) - 1)), s[Len(s)])

\* qsort(base, nmemb, sizeof(char *), sort_profile_ids): the first nmemb
\* slots of base ordered by the comparator, the rest untouched
qsort(base, nmemb) ==
    InsertionSort(SubSeq(base, 1, nmemb)) \o SubSeq(base, nmemb + 1, Len(base))

\* The state threaded through the merge_* helpers: the array, *index, the
\* number of allocations made so far and the return value.  failAt is the
\* ordinal of the allocation that fails (0: none does).
Alloc(st, failAt) == st.nalloc + 1 # failAt

RECURSIVE merge_default_from(_, _, _, _)
merge_default_from(st, dir, i, failAt) ==
    IF i > Len(dir) THEN st
    ELSE IF ~Alloc(st, failAt)
    THEN [st EXCEPT !.ret = "ENOMEM", !.nalloc = @ + 1]
    ELSE merge_default_from(
            [st EXCEPT !.ids[st.index + 1] = dir[i], !.index = @ + 1, !.nalloc = @ + 1],
            dir, i + 1, failAt)

merge_default(st, dir, failAt) == merge_default_from(st, dir, 1, failAt)

RECURSIVE merge_vendor_nodedup_from(_, _, _, _, _)
merge_vendor_nodedup_from(st, dir, i, input_index, failAt) ==
    IF i > Len(dir) THEN st
    ELSE IF ~Alloc(st, failAt)
    THEN [st EXCEPT !.ret = "ENOMEM", !.nalloc = @ + 1]
    ELSE merge_vendor_nodedup_from(
            [st EXCEPT !.ids[st.index + 1] = dir[i], !.index = @ + 1, !.nalloc = @ + 1],
            dir, i + 1, input_index, failAt)

merge_vendor_nodedup(st, dir, failAt) ==
    merge_vendor_nodedup_from(st, dir, 1, st.index, failAt)

RECURSIVE merge_vendor_from(_, _, _, _, _)
merge_vendor_from(st, dir, i, input_index, failAt) ==
    IF i > Len(dir) THEN st
    ELSE IF \E j \in 1..input_index : strcmp(dir[i], st.ids[j]) = 0
    THEN merge_vendor_from(st, dir, i + 1, input_index, failAt)
    ELSE IF ~Alloc(st, failAt)
    THEN [st EXCEPT !.ret = "ENOMEM", !.nalloc = @ + 1]
    ELSE merge_vendor_from(
            [st EXCEPT !.ids[st.index + 1] = dir[i], !.index = @ + 1, !.nalloc = @ + 1],
            dir, i + 1, input_index, failAt)

merge_vendor(st, dir, failAt) == merge_vendor_from(st, dir, 1, st.index, failAt)

RECURSIVE merge_custom_dedup_from(_, _, _, _)
merge_custom_dedup_from(st, dir, i, failAt) ==
    IF i > Len(dir) THEN st
    ELSE IF \E j \in 1..st.index : strcmp(dir[i], st.ids[j]) = 0
    THEN merge_custom_dedup_from(st, dir, i + 1, failAt)
    ELSE IF ~Alloc(st, failAt)
    THEN [st EXCEPT !.ret = "ENOMEM", !.nalloc = @ + 1]
    ELSE merge_custom_dedup_from(
            [st EXCEPT !.ids[st.index + 1] = authselect_profile_custom_id(dir[i]),
                       !.index = @ + 1, !.nalloc = @ + 1],
            dir, i + 1, failAt)

merge_custom_dedup(st, dir, failAt) == merge_custom_dedup_from(st, dir, 1, failAt)

RECURSIVE merge_custom_from(_, _, _, _)
merge_custom_from(st, dir, i, failAt) ==
    IF i > Len(dir) THEN st
    ELSE IF ~Alloc(st, failAt)
    THEN [st EXCEPT !.ret = "ENOMEM", !.nalloc = @ + 1]
    ELSE merge_custom_from(
            [st EXCEPT !.ids[st.index + 1] = authselect_profile_custom_id(dir[i]),
                       !.index = @ + 1, !.nalloc = @ + 1],
            dir, i + 1, failAt)

merge_custom(st, dir, failAt) == merge_custom_from(st, dir, 1, failAt)

\* authselect_merge_profiles: [ret |-> "NULL"] or [ret |-> "ids", ids |-> array]
authselect_merge_profiles(p, v, c, failAt) ==
    LET num_profiles == Len(p) + Len(v) + Len(c)
        st0 == [ids |-> [k \in 1..(num_profiles + 1) |-> NULL],
                index |-> 0, nalloc |-> 1, ret |-> "EOK"]
        st1 == merge_default(st0, p, failAt)
        st2 == merge_vendor(st1, v, failAt)
        st3 == merge_custom(st2, c, failAt)
    IN  IF failAt = 1 THEN [ret |-> "NULL", ids |-> <<>>]
        ELSE IF st1.ret # "EOK" THEN [ret |-> "NULL", ids |-> <<>>]
        ELSE IF st2.ret # "EOK" THEN [ret |-> "NULL", ids |-> <<>>]
        ELSE IF st3.ret # "EOK" THEN [ret |-> "NULL", ids |-> <<>>]
        ELSE [ret |-> "ids", ids |-> qsort(st3.ids, st3.index + 1)]

(***************************************************************************)
(* Directory listings: what authselect_dir_read leaves in dir->profiles.   *)
(* Entry names are names of subdirectories of one directory: no '/', no    *)
(* repetition, in the order readdir produced them.                         *)
(***************************************************************************)
\* "local", "mine", "sssd", "winbind"
Names == { <<108, 111, 99, 97, 108>>, <<109, 105, 110, 101>>,
           <<115, 115, 115, 100>>, <<119, 105, 110, 98, 105, 110, 100>> }

Range(s) == { s[i] : i \in 1..Len(s) }

Listings ==
    UNION { { s \in [1..n -> Names] : \A i, j \in 1..n : i # j => s[i] # s[j] }
            : n \in 0..MaxListing }

ContentIdle == content = <<>> /\ expected = <<>> /\ cmp = <<>>

VerifierIdle ==
    /\ fs = <<>> /\ faults = {} /\ op = "idle" /\ conf_ret = "EOK" /\ cat_ret = "EOK"
    /\ ret = "EOK" /\ is_valid = <<>> /\ log = <<>> /\ probes = <<>>

MergeInit ==
    /\ profile \in Listings
    /\ vendor \in Listings
    /\ custom \in Listings
    /\ merged = "none"
    /\ ids = <<>>
    /\ ContentIdle
    /\ VerifierIdle

\* one call of authselect_merge_profiles on the three directories
MergeProfiles ==
    /\ merged = "none"
    /\ \E failAt \in 0..(Len(profile) + Len(vendor) + Len(custom) + 1) :
          LET r == authselect_merge_profiles(profile, vendor, custom, failAt)
          IN  /\ merged' = r.ret
              /\ ids' = r.ids
    /\ UNCHANGED <<profile, vendor, custom, cvars, vvars>>

MergeNext == MergeProfiles

MergeSpec == MergeInit /\ [][MergeNext]_vars

(***************************************************************************)
(* check_content and the part of check_generated_file that calls it.       *)
(***************************************************************************)
\* '#', '\n' and a body byte
Hash == <<35>>
Newline == <<10>>
Bytes == { 35, 10, 98 }

\* strchr(s + from - 1, c): the index of the first c at or after from, 0 for NULL
strchr(s, c, from) == StrchrFrom(s, c, from)

check_content_noblank(c, e) ==
    IF CharAt(c, 1) # Hash[1] THEN FALSE
    ELSE LET nl1 == strchr(c, Newline[1], 1) IN
    IF nl1 = 0 THEN FALSE
    ELSE IF CharAt(c, nl1 + 1) # Hash[1] THEN FALSE
    ELSE LET nl2 == strchr(c, Newline[1], nl1 + 1) IN
    IF nl2 = 0 THEN FALSE
    ELSE strcmp(SubSeq(c, nl2 + 2, Len(c)), e) = 0

check_content(c, e) ==
    IF CharAt(c, 1) # Hash[1] THEN FALSE
    ELSE LET nl1 == strchr(c, Newline[1], 1) IN
    IF nl1 = 0 THEN FALSE
    ELSE IF CharAt(c, nl1 + 1) # Hash[1] THEN FALSE
    ELSE LET nl2 == strchr(c, Newline[1], nl1 + 1) IN
    IF nl2 = 0 THEN FALSE
    ELSE IF CharAt(c, nl2 + 1) # Newline[1] THEN FALSE
    ELSE strcmp(SubSeq(c, nl2 + 2, Len(c)), e) = 0

\* check_generated_file, lines 94-98: a NULL expected content is ""
check_expected_content(c, expected_content) ==
    check_content(c, IF expected_content = NULL THEN <<>> ELSE expected_content)

Strings(n) == UNION { [1..k -> Bytes] : k \in 0..n }

MergeIdle ==
    /\ profile = <<>> /\ vendor = <<>> /\ custom = <<>>
    /\ merged = "none" /\ ids = <<>>

ContentInit ==
    /\ content \in Strings(MaxContent)
    /\ expected \in Strings(MaxExpected) \cup {NULL}
    /\ cmp = <<>>
    /\ MergeIdle
    /\ VerifierIdle

\* the content of one file that was read is compared with what is expected
CheckContent ==
    /\ cmp = <<>>
    /\ cmp' = <<check_expected_content(content, expected)>>
    /\ UNCHANGED <<mvars, content, expected, vvars>>

ContentNext == CheckContent

ContentSpec == ContentInit /\ [][ContentNext]_vars

(***************************************************************************)
(* The filesystem the verifier probes.                                     *)
(***************************************************************************)
\* "/a": the directory the generated files live in
DirPath == <<47, 97>>
\* "/a/x", "/a/y": the generated files
GenX == <<47, 97, 47, 120>>
GenY == <<47, 97, 47, 121>>
\* "/x", "/y": the symbolic links to them
LinkX == <<47, 120>>
LinkY == <<47, 121>>
\* "/o": a file that is none of the tool's
OtherPath == <<47, 111>>
\* "z"
Suffix == <<122>>

\* the body authselect_cat compiles for "/a/x" ("b"); "/a/y" has none (NULL)
BodyX == <<98>>

\* GENERATED_FILES(files): the paths with the compiled contents
GENERATED_FILES == << [path |-> GenX, content |-> BodyX],
                      [path |-> GenY, content |-> NULL] >>

\* GENERATED_FILES_PATHS: the same paths, no contents
GENERATED_FILES_PATHS == << [path |-> GenX, content |-> NULL],
                            [path |-> GenY, content |-> NULL] >>

\* SYMLINK_FILES: each link with the generated file it points at
SYMLINK_FILES == << [name |-> LinkX, dest |-> GenX],
                    [name |-> LinkY, dest |-> GenY] >>

\* owner and group of the generated files
AUTHSELECT_UID == 0
AUTHSELECT_GID == 0
\* S_IRUSR | S_IWUSR | S_IRGRP | S_IROTH (0644)
GeneratedPerms == 420
\* ACCESSPERMS (0777)
ACCESSPERMS == 511
\* (uid_t)-1, (gid_t)-1: do not compare
DontCare == -1

None == [type |-> "none", content |-> <<>>, perm |-> 0, uid |-> 0, gid |-> 0,
         target |-> <<>>]
Reg(c, p, u, g) == [type |-> "reg", content |-> c, perm |-> p, uid |-> u, gid |-> g,
                    target |-> <<>>]
Lnk(t) == [type |-> "lnk", content |-> <<>>, perm |-> ACCESSPERMS, uid |-> 0, gid |-> 0,
           target |-> t]
Dir == [type |-> "dir", content |-> <<>>, perm |-> 493, uid |-> 0, gid |-> 0,
        target |-> <<>>]

\* "#\n#\n\nb" and "#\n#\n\n": what the tool writes for "/a/x" and for "/a/y"
GoodX == <<35, 10, 35, 10, 10, 98>>
GoodY == <<35, 10, 35, 10, 10>>

\* the object at path p itself
Obj(f, p) ==
    IF p \in DOMAIN f THEN f[p]
    ELSE IF p = DirPath THEN Dir
    ELSE IF p = OtherPath THEN Reg(GoodX, GeneratedPerms, 0, 0)
    ELSE None

\* the object p leads to, symbolic links followed
RECURSIVE ResolveFrom(_, _, _)
ResolveFrom(f, p, depth) ==
    LET o == Obj(f, p) IN
    IF o.type # "lnk" THEN o
    ELSE IF depth = 0 THEN None
    ELSE ResolveFrom(f, o.target, depth - 1)

Resolve(f, p) == ResolveFrom(f, p, 4)

\* what may be found at a generated file's path
GenObjects ==
    { None, Lnk(OtherPath),
      Reg(GoodX, GeneratedPerms, AUTHSELECT_UID, AUTHSELECT_GID),
      Reg(GoodY, GeneratedPerms, AUTHSELECT_UID, AUTHSELECT_GID),
      Reg(GoodX, 384, AUTHSELECT_UID, AUTHSELECT_GID),
      Reg(GoodX, GeneratedPerms, 1, AUTHSELECT_GID),
      Reg(GoodX, GeneratedPerms, AUTHSELECT_UID, 1) }

GenObjectsY ==
    { None,
      Reg(GoodX, GeneratedPerms, AUTHSELECT_UID, AUTHSELECT_GID),
      Reg(GoodY, GeneratedPerms, AUTHSELECT_UID, AUTHSELECT_GID) }

\* what may be found at a link's path: nothing, a file, a link to the
\* generated file, to "/a" (a prefix of it), to "/o", or to a longer path
LinkObjects(dest) ==
    { None, Reg(GoodX, GeneratedPerms, 0, 0),
      Lnk(dest), Lnk(DirPath), Lnk(OtherPath), Lnk(dest \o Suffix) }

LinkObjectsY(dest) == { None, Lnk(dest), Lnk(OtherPath) }

Filesystems ==
    { (GenX :> gx) @@ (GenY :> gy) @@ (LinkX :> lx) @@ (LinkY :> ly) :
        gx \in GenObjects, gy \in GenObjectsY,
        lx \in LinkObjects(GenX), ly \in LinkObjectsY(GenY) }

\* A probe may fail although the objects are as fs says: the path was
\* changed by another process just before, a directory above it does not
\* let the caller in, the disk fails.
ProbeSites ==
    ({"read"} \X {GenX, GenY})
    \cup ({"lstat", "access"} \X {GenX, GenY, LinkX, LinkY})
    \cup ({"readlink"} \X {LinkX, LinkY})

Faults ==
    { [probe |-> s[1], path |-> s[2], err |-> e] :
        s \in ProbeSites, e \in {"ENOENT", "EACCES", "EIO"} }

RECURSIVE FaultSetsUpTo(_)
FaultSetsUpTo(n) ==
    IF n = 0 THEN { {} }
    ELSE LET smaller == FaultSetsUpTo(n - 1) IN
         smaller \cup
         { F \cup {x} : F \in smaller,
                        x \in Faults }

FaultSets ==
    { F \in FaultSetsUpTo(MaxFaults) :
        \A x, y \in F : (x.probe = y.probe /\ x.path = y.path) => x = y }

Fault(e, probe, p) ==
    IF \E x \in e.faults : x.probe = probe /\ x.path = p
    THEN (CHOOSE x \in e.faults : x.probe = probe /\ x.path = p).err
    ELSE "EOK"

\* access(path, F_OK): follows symbolic links
sys_access(e, p) ==
    IF Fault(e, "access", p) # "EOK" THEN Fault(e, "access", p)
    ELSE IF Resolve(e.fs, p).type = "none" THEN "ENOENT"
    ELSE "EOK"

\* lstat(path, &statbuf): the object at the path itself
sys_lstat(e, p) ==
    IF Fault(e, "lstat", p) # "EOK" THEN [err |-> Fault(e, "lstat", p), st |-> None]
    ELSE IF Obj(e.fs, p).type = "none" THEN [err |-> "ENOENT", st |-> None]
    ELSE [err |-> "EOK", st |-> Obj(e.fs, p)]

\* readlink(path, linkbuf, PATH_MAX + 1): the bytes of the target and their
\* number; linkbuf is not NUL-terminated, only its first len bytes are set
sys_readlink(e, p) ==
    IF Fault(e, "readlink", p) # "EOK"
    THEN [err |-> Fault(e, "readlink", p), linkbuf |-> <<>>, len |-> -1]
    ELSE IF Obj(e.fs, p).type = "none" THEN [err |-> "ENOENT", linkbuf |-> <<>>, len |-> -1]
    ELSE IF Obj(e.fs, p).type # "lnk" THEN [err |-> "EINVAL", linkbuf |-> <<>>, len |-> -1]
    ELSE [err |-> "EOK", linkbuf |-> Obj(e.fs, p).target, len |-> Len(Obj(e.fs, p).target)]

\* fopen(path, "r") and the read of the whole file: follows symbolic links
sys_read(e, p) ==
    IF Fault(e, "read", p) # "EOK" THEN [err |-> Fault(e, "read", p), content |-> <<>>]
    ELSE IF Resolve(e.fs, p).type = "none" THEN [err |-> "ENOENT", content |-> <<>>]
    ELSE IF Resolve(e.fs, p).type = "dir" THEN [err |-> "EISDIR", content |-> <<>>]
    ELSE [err |-> "EOK", content |-> Resolve(e.fs, p).content]

\* The run so far: its messages and its probes.
NoTrace == [log |-> <<>>, probes |-> <<>>]
Probed(t, probe, p, res) ==
    [t EXCEPT !.probes = Append(@, [probe |-> probe, path |-> p, res |-> res])]
Said(t, lvl, msg, p) ==
    [t EXCEPT !.log = Append(@, [lvl |-> lvl, msg |-> msg, path |-> p])]

(***************************************************************************)
(* lib/authselect_util.c: the checks of one path.  Each takes the          *)
(* environment e = [fs, faults] and the run so far, and yields the return  *)
(* value, the value written through the bool pointer (meaningful when the  *)
(* function wrote it) and the run extended.  A function that goes on after *)
(* a call is split at the call: the second part takes the call's result.   *)
(***************************************************************************)
\* read_textfile: an error of fopen is returned as it is, one of the read
\* that follows is logged by read_textfile_internal
read_textfile_internal(t, filename, r) ==
    [ret |-> r.err, content |-> r.content,
     t |-> IF r.err \in {"EOK", "ENOENT", "EACCES"}
           THEN Probed(t, "read", filename, r.err)
           ELSE Said(Probed(t, "read", filename, r.err), "ERROR", "Unable to read file",
                     filename)]

read_textfile(e, t, filepath) == read_textfile_internal(t, filepath, sys_read(e, filepath))

check_type(t, statbuf, name, type) ==
    IF type # statbuf.type
    THEN [ok |-> FALSE, t |-> Said(t, "ERROR", "has wrong type", name)]
    ELSE [ok |-> TRUE, t |-> t]

\* check_mode without the comparison of the group
check_mode_nogroup(t, statbuf, name, uid, gid, type, perm) ==
    IF ~check_type(t, statbuf, name, type).ok THEN check_type(t, statbuf, name, type)
    ELSE IF perm # statbuf.perm
    THEN [ok |-> FALSE, t |-> Said(t, "ERROR", "has wrong mode", name)]
    ELSE IF uid # DontCare /\ statbuf.uid # uid
    THEN [ok |-> FALSE, t |-> Said(t, "ERROR", "has wrong owner", name)]
    ELSE [ok |-> TRUE, t |-> t]

check_mode(t, statbuf, name, uid, gid, type, perm) ==
    IF ~check_type(t, statbuf, name, type).ok THEN check_type(t, statbuf, name, type)
    ELSE IF perm # statbuf.perm
    THEN [ok |-> FALSE, t |-> Said(t, "ERROR", "has wrong mode", name)]
    ELSE IF uid # DontCare /\ statbuf.uid # uid
    THEN [ok |-> FALSE, t |-> Said(t, "ERROR", "has wrong owner", name)]
    ELSE IF gid # DontCare /\ statbuf.gid # gid
    THEN [ok |-> FALSE, t |-> Said(t, "ERROR", "has wrong group", name)]
    ELSE [ok |-> TRUE, t |-> t]

\* check_internal once lstat returned r
check_internal_stat(t, filepath, uid, gid, type, perm, r) ==
    IF r.err = "ENOENT"
    THEN [ret |-> "EOK", result |-> FALSE,
          t |-> Said(Probed(t, "lstat", filepath, r.err), "ERROR", "does not exist",
                     filepath)]
    ELSE IF r.err # "EOK"
    THEN [ret |-> r.err, result |-> FALSE,
          t |-> Said(Probed(t, "lstat", filepath, r.err), "ERROR", "Unable to stat",
                     filepath)]
    ELSE [ret |-> "EOK",
          result |-> check_mode(Probed(t, "lstat", filepath, r.err), r.st, filepath,
                                uid, gid, type, perm).ok,
          t |-> check_mode(Probed(t, "lstat", filepath, r.err), r.st, filepath,
                           uid, gid, type, perm).t]

check_internal(e, t, filepath, uid, gid, type, perm) ==
    check_internal_stat(t, filepath, uid, gid, type, perm, sys_lstat(e, filepath))

check_file(e, t, filepath, uid, gid, permissions) ==
    check_internal(e, t, filepath, uid, gid, "reg", permissions)

\* check_link once readlink returned r
check_link_readlink(t, linkpath, destpath, r) ==
    IF r.len = -1
    THEN [ret |-> r.err, result |-> TRUE,
          t |-> Said(Probed(t, "readlink", linkpath, r.err), "ERROR",
                     "Unable to read link destination", linkpath)]
    ELSE IF strncmp(r.linkbuf, destpath, r.len) # 0
    THEN [ret |-> "EOK", result |-> FALSE,
          t |-> Said(Probed(t, "readlink", linkpath, r.err), "ERROR",
                     "Link does not point to", linkpath)]
    ELSE [ret |-> "EOK", result |-> TRUE, t |-> Probed(t, "readlink", linkpath, r.err)]

\* check_link once check_internal returned c
check_link_internal(e, linkpath, destpath, c) ==
    IF c.ret # "EOK" \/ c.result = FALSE THEN c
    ELSE check_link_readlink(c.t, linkpath, destpath, sys_readlink(e, linkpath))

check_link(e, t, linkpath, destpath) ==
    check_link_internal(e, linkpath, destpath,
        check_internal(e, t, linkpath, DontCare, DontCare, "lnk", ACCESSPERMS))

\* check_notalink once readlink returned r
check_notalink_readlink(t, linkpath, destpath, r) ==
    IF r.len = -1
    THEN [ret |-> r.err, result |-> FALSE,
          t |-> Said(Probed(t, "readlink", linkpath, r.err), "ERROR",
                     "Unable to read link destination", linkpath)]
    ELSE IF strncmp(r.linkbuf, destpath, r.len) = 0
    THEN [ret |-> "EOK", result |-> FALSE,
          t |-> Said(Probed(t, "readlink", linkpath, r.err), "ERROR",
                     "it is an authselect symbolic link", linkpath)]
    ELSE [ret |-> "EOK", result |-> TRUE, t |-> Probed(t, "readlink", linkpath, r.err)]

\* check_notalink once lstat returned s
check_notalink_stat(e, t, linkpath, destpath, s) ==
    IF s.err = "ENOENT"
    THEN [ret |-> "EOK", result |-> TRUE, t |-> Probed(t, "lstat", linkpath, s.err)]
    ELSE IF s.err # "EOK"
    THEN [ret |-> s.err, result |-> FALSE,
          t |-> Said(Probed(t, "lstat", linkpath, s.err), "ERROR", "Unable to stat",
                     linkpath)]
    ELSE IF s.st.type # "lnk"
    THEN [ret |-> "EOK", result |-> TRUE, t |-> Probed(t, "lstat", linkpath, s.err)]
    ELSE check_notalink_readlink(Probed(t, "lstat", linkpath, s.err), linkpath, destpath,
                                 sys_readlink(e, linkpath))

check_notalink(e, t, linkpath, destpath) ==
    check_notalink_stat(e, t, linkpath, destpath, sys_lstat(e, linkpath))

check_access(e, t, path) ==
    [ret |-> sys_access(e, path), t |-> Probed(t, "access", path, sys_access(e, path))]

check_exists(e, t, path) == check_access(e, t, path)

(***************************************************************************)
(* lib/authselect_check.c                                                  *)
(***************************************************************************)
\* check_generated_file once check_file returned c
check_generated_file_mode(path, c) ==
    IF c.ret # "EOK"
    THEN [c EXCEPT !.t = Said(@, "ERROR", "Unable to check file mode", path)]
    ELSE c

check_generated_file_read_nofold(e, path, expected_content, r) ==
    IF r.ret = "ENOENT"
    THEN [ret |-> "EOK", result |-> FALSE, t |-> Said(r.t, "ERROR", "does not exist", path)]
    ELSE IF r.ret # "EOK" THEN [ret |-> r.ret, result |-> FALSE, t |-> r.t]
    ELSE IF ~check_expected_content(r.content, expected_content)
    THEN [ret |-> "EOK", result |-> FALSE,
          t |-> Said(r.t, "ERROR", "has unexpected content", path)]
    ELSE check_generated_file_mode(path,
            check_file(e, r.t, path, AUTHSELECT_UID, AUTHSELECT_GID, GeneratedPerms))

\* check_generated_file once read_textfile returned r
check_generated_file_read(e, path, expected_content, r) ==
    IF r.ret = "ENOENT"
    THEN [ret |-> "EOK", result |-> FALSE, t |-> Said(r.t, "ERROR", "does not exist", path)]
    ELSE IF r.ret = "EACCES"
    THEN [ret |-> "EOK", result |-> FALSE, t |-> Said(r.t, "ERROR", "Unable to read", path)]
    ELSE IF r.ret # "EOK" THEN [ret |-> r.ret, result |-> FALSE, t |-> r.t]
    ELSE IF ~check_expected_content(r.content, expected_content)
    THEN [ret |-> "EOK", result |-> FALSE,
          t |-> Said(r.t, "ERROR", "has unexpected content", path)]
    ELSE check_generated_file_mode(path,
            check_file(e, r.t, path, AUTHSELECT_UID, AUTHSELECT_GID, GeneratedPerms))

check_generated_file(e, t, path, expected_content) ==
    check_generated_file_read(e, path, expected_content, read_textfile(e, t, path))

RECURSIVE check_generated_files_from(_, _, _, _, _)

check_generated_files_next_stop(e, generated, i, is_valid_result, c) ==
    IF c.ret # "EOK" THEN c
    ELSE IF ~c.result
    THEN [ret |-> "EOK", result |-> FALSE,
          t |-> Said(c.t, "WARN", "was modified outside authselect", generated[i].path)]
    ELSE check_generated_files_from(e, c.t, generated, i + 1, is_valid_result)

\* the body of the loop of check_generated_files once check_generated_file
\* returned c for generated[i]
check_generated_files_next(e, generated, i, is_valid_result, c) ==
    IF c.ret # "EOK" THEN c
    ELSE IF ~c.result
    THEN check_generated_files_from(
            e, Said(c.t, "WARN", "was modified outside authselect", generated[i].path),
            generated, i + 1, FALSE)
    ELSE check_generated_files_from(e, c.t, generated, i + 1, is_valid_result)

\* the loop of check_generated_files from generated[i] on
check_generated_files_from(e, t, generated, i, is_valid_result) ==
    IF i > Len(generated) THEN [ret |-> "EOK", result |-> is_valid_result, t |-> t]
    ELSE check_generated_files_next(e, generated, i, is_valid_result,
            check_generated_file(e, t, generated[i].path, generated[i].content))

check_generated_files(e, t, files) == check_generated_files_from(e, t, files, 1, TRUE)

RECURSIVE check_symlinks_from(_, _, _, _, _)

\* the body of the loop of check_symlinks going on after a failure of
\* check_link as after an invalid link
check_symlinks_next_goon(e, symlinks, i, is_valid_result, c) ==
    IF c.ret # "EOK" \/ ~c.result
    THEN check_symlinks_from(
            e, Said(c.t, "ERROR", "was not created by authselect", symlinks[i].name),
            symlinks, i + 1, FALSE)
    ELSE check_symlinks_from(e, c.t, symlinks, i + 1, is_valid_result)

\* the body of the loop of check_symlinks once check_link returned c
check_symlinks_next(e, symlinks, i, is_valid_result, c) ==
    IF c.ret # "EOK" THEN c
    ELSE IF ~c.result
    THEN check_symlinks_from(
            e, Said(c.t, "ERROR", "was not created by authselect", symlinks[i].name),
            symlinks, i + 1, FALSE)
    ELSE check_symlinks_from(e, c.t, symlinks, i + 1, is_valid_result)

check_symlinks_from(e, t, symlinks, i, is_valid_result) ==
    IF i > Len(symlinks) THEN [ret |-> "EOK", result |-> is_valid_result, t |-> t]
    ELSE check_symlinks_next(e, symlinks, i, is_valid_result,
            check_link(e, t, symlinks[i].name, symlinks[i].dest))

check_symlinks(e, t) == check_symlinks_from(e, t, SYMLINK_FILES, 1, TRUE)

RECURSIVE check_missing_files_from(_, _, _, _, _)

\* the body of the first loop of check_missing_conf once check_exists returned x
check_missing_files_next(e, generated, i, is_valid_result, x) ==
    IF x.ret = "EOK"
    THEN check_missing_files_from(
            e, Said(x.t, "ERROR", "is still present", generated[i].path),
            generated, i + 1, FALSE)
    ELSE IF x.ret # "ENOENT"
    THEN [ret |-> x.ret, result |-> is_valid_result,
          t |-> Said(x.t, "ERROR", "Error while trying to access file", generated[i].path)]
    ELSE check_missing_files_from(e, x.t, generated, i + 1, is_valid_result)

\* the first loop of check_missing_conf: the generated files are gone
check_missing_files_from(e, t, generated, i, is_valid_result) ==
    IF i > Len(generated) THEN [ret |-> "EOK", result |-> is_valid_result, t |-> t]
    ELSE check_missing_files_next(e, generated, i, is_valid_result,
            check_exists(e, t, generated[i].path))

RECURSIVE check_missing_links_from(_, _, _, _, _)

\* ... once check_notalink returned n for symlinks[i]
check_missing_links_notalink(e, symlinks, i, is_valid_result, n) ==
    IF n.ret # "EOK" THEN n
    ELSE IF ~n.result
    THEN check_missing_links_from(
            e, Said(n.t, "ERROR", "Symbolic link still exists", symlinks[i].name),
            symlinks, i + 1, FALSE)
    ELSE check_missing_links_from(e, n.t, symlinks, i + 1, is_valid_result)

\* the body of the second loop of check_missing_conf once check_exists returned x
check_missing_links_next(e, symlinks, i, is_valid_result, x) ==
    IF x.ret = "EOK"
    THEN check_missing_links_notalink(e, symlinks, i, is_valid_result,
            check_notalink(e, x.t, symlinks[i].name, symlinks[i].dest))
    ELSE IF x.ret # "ENOENT"
    THEN [ret |-> x.ret, result |-> is_valid_result,
          t |-> Said(x.t, "ERROR", "Error while trying to access file", symlinks[i].name)]
    ELSE check_missing_links_from(e, x.t, symlinks, i + 1, is_valid_result)

\* the second loop of check_missing_conf: no link of the tool is left
check_missing_links_from(e, t, symlinks, i, is_valid_result) ==
    IF i > Len(symlinks) THEN [ret |-> "EOK", result |-> is_valid_result, t |-> t]
    ELSE check_missing_links_next(e, symlinks, i, is_valid_result,
            check_exists(e, t, symlinks[i].name))

\* check_missing_conf once its first loop ended with g
check_missing_conf_links(e, g) ==
    IF g.ret # "EOK" THEN g
    ELSE check_missing_links_from(e, g.t, SYMLINK_FILES, 1, g.result)

check_missing_conf(e, t) ==
    check_missing_conf_links(e,
        check_missing_files_from(e, t, GENERATED_FILES_PATHS, 1, TRUE))

\* authselect_cat(profile_id, features, &files): the compiled profile or an error
authselect_cat(catres) ==
    [ret |-> catres, files |-> IF catres = "EOK" THEN GENERATED_FILES ELSE <<>>]

\* check_existing_conf once check_symlinks returned l
check_existing_conf_links(g, l) ==
    IF l.ret # "EOK" THEN l
    ELSE [ret |-> "EOK", result |-> g.result /\ l.result, t |-> l.t]

\* check_existing_conf once check_generated_files returned g
check_existing_conf_files(e, g) ==
    IF g.ret # "EOK" THEN g
    ELSE check_existing_conf_links(g, check_symlinks(e, g.t))

\* check_existing_conf once authselect_cat returned c
check_existing_conf_cat(e, t, c) ==
    IF c.ret # "EOK"
    THEN [ret |-> c.ret, result |-> FALSE,
          t |-> Said(t, "ERROR", "Unable to load profile", <<>>)]
    ELSE check_existing_conf_files(e, check_generated_files(e, t, c.files))

check_existing_conf(e, t, catres) == check_existing_conf_cat(e, t, authselect_cat(catres))

\* authselect_check_conf once check_missing_conf returned m
check_conf_missing(m) ==
    IF m.ret # "EOK" THEN [ret |-> m.ret, written |-> FALSE, result |-> FALSE, t |-> m.t]
    ELSE [ret |-> "ENOENT", written |-> TRUE, result |-> m.result, t |-> m.t]

\* authselect_check_conf once check_existing_conf returned x
check_conf_existing(x) ==
    [ret |-> x.ret, written |-> x.ret = "EOK", result |-> x.result, t |-> x.t]

\* authselect_check_conf: written tells whether *_is_valid was assigned
authselect_check_conf(e, confres, catres) ==
    IF confres = "ENOENT" THEN check_conf_missing(check_missing_conf(e, NoTrace))
    ELSE IF confres # "EOK"
    THEN [ret |-> confres, written |-> FALSE, result |-> FALSE, t |-> NoTrace]
    ELSE check_conf_existing(check_existing_conf(e, NoTrace, catres))

RECURSIVE check_symlinks_presence_from(_, _, _, _, _)

\* the body of the loop of authselect_check_symlinks_presence once
\* check_exists returned x
check_symlinks_presence_next(e, symlinks, i, exist, x) ==
    IF x.ret = "EOK"
    THEN check_symlinks_presence_from(
            e, Said(x.t, "ERROR", "exist but it needs to be overwritten", symlinks[i].name),
            symlinks, i + 1, TRUE)
    ELSE IF x.ret # "ENOENT"
    THEN [ret |-> x.ret, written |-> FALSE, result |-> exist,
          t |-> Said(x.t, "ERROR", "Error while trying to access file", symlinks[i].name)]
    ELSE check_symlinks_presence_from(e, x.t, symlinks, i + 1, exist)

check_symlinks_presence_from(e, t, symlinks, i, exist) ==
    IF i > Len(symlinks) THEN [ret |-> "EOK", written |-> TRUE, result |-> exist, t |-> t]
    ELSE check_symlinks_presence_next(e, symlinks, i, exist,
            check_exists(e, t, symlinks[i].name))

authselect_check_symlinks_presence(e) ==
    check_symlinks_presence_from(e, NoTrace, SYMLINK_FILES, 1, FALSE)

(***************************************************************************)
(* The verifier as a state machine: the filesystem and the failing probes  *)
(* are as the run finds them; each public operation is one step.           *)
(***************************************************************************)
\* what authselect_read_conf may return: a record, none, or a failure
ReadConfResults == {"EOK", "ENOENT", "EIO"}
\* what authselect_cat may return: the profile, or that it cannot be found
\* or built
CatResults == {"EOK", "ENOENT", "ENOMEM"}

Env == [fs |-> fs, faults |-> faults]

\* the variables of the verifier after a run that returned r
Returned(r) ==
    /\ ret' = r.ret
    /\ is_valid' = IF r.written THEN <<r.result>> ELSE <<>>
    /\ log' = r.t.log
    /\ probes' = r.t.probes

Init ==
    /\ fs \in Filesystems
    /\ faults \in FaultSets
    /\ op = "idle"
    /\ conf_ret = "EOK" /\ cat_ret = "EOK"
    /\ ret = "EOK" /\ is_valid = <<>> /\ log = <<>> /\ probes = <<>>
    /\ MergeIdle
    /\ ContentIdle

CheckConf ==
    /\ op = "idle"
    /\ \E confres \in ReadConfResults, catres \in CatResults :
          /\ (confres # "EOK" => catres = "EOK")
          /\ op' = "check_conf"
          /\ conf_ret' = confres
          /\ cat_ret' = catres
          /\ Returned(authselect_check_conf(Env, confres, catres))
    /\ UNCHANGED <<fs, faults, mvars, cvars>>

CheckSymlinksPresence ==
    /\ op = "idle"
    /\ op' = "check_symlinks_presence"
    /\ Returned(authselect_check_symlinks_presence(Env))
    /\ UNCHANGED <<fs, faults, conf_ret, cat_ret, mvars, cvars>>

Next == CheckConf \/ CheckSymlinksPresence

Spec == Init /\ [][Next]_vars

(***************************************************************************)
(* Properties of the merger (under MergeSpec).                             *)
(***************************************************************************)
\* the entries a reader of the returned array sees: those before the first NULL
Catalog(a) ==
    IF \E k \in 1..Len(a) : a[k] = NULL
    THEN SubSeq(a, 1, (CHOOSE k \in 1..Len(a) :
                          a[k] = NULL /\ \A l \in 1..(k - 1) : a[l] # NULL) - 1)
    ELSE a

Occurrences(s, x) == Cardinality({ i \in 1..Len(s) : s[i] = x })

\* s is "custom/" followed by something
HasCustomPrefix(s) ==
    /\ Len(s) >= Len(CustomPrefix)
    /\ SubSeq(s, 1, Len(CustomPrefix)) = CustomPrefix

\* a is before b in byte-wise lexicographic order
ByteLess(a, b) ==
    \E k \in 1..(Len(b)) :
        /\ \A l \in 1..(k - 1) : l <= Len(a) /\ a[l] = b[l]
        /\ (k > Len(a) \/ a[k] < b[k])

PlainSet == Range(profile) \cup Range(vendor)
CustomSet == { CustomPrefix \o n : n \in Range(custom) }

\* C1: the returned catalog never holds the same identifier twice, and a
\* name found in both the default and the vendor directory is in it once.
C1_NoDuplicates ==
    merged = "ids" =>
        LET cat == Catalog(ids) IN
        /\ \A i, j \in 1..Len(cat) : i # j => cat[i] # cat[j]
        /\ \A n \in Range(profile) \cap Range(vendor) : Occurrences(cat, n) = 1

C1_Witness ==
    /\ merged = "ids"
    /\ Range(profile) \cap Range(vendor) # {}
    /\ Range(vendor) \ Range(profile) # {}

\* C2: every entry of the custom directory is in the returned catalog once,
\* as custom/<name>, whether or not default or vendor hold the same name,
\* and every custom/ entry is behind every other entry.
C2_CustomAlwaysLast ==
    merged = "ids" =>
        LET cat == Catalog(ids) IN
        /\ \A n \in Range(custom) : Occurrences(cat, CustomPrefix \o n) = 1
        /\ \A i, j \in 1..Len(cat) :
              HasCustomPrefix(cat[i]) /\ ~HasCustomPrefix(cat[j]) => j < i

C2_Witness ==
    /\ merged = "ids"
    /\ Range(custom) \cap Range(profile) # {}
    /\ Range(custom) \cap Range(vendor) # {}
    /\ \E i \in 1..Len(Catalog(ids)) : HasCustomPrefix(Catalog(ids)[i])
    /\ \E i \in 1..Len(Catalog(ids)) : ~HasCustomPrefix(Catalog(ids)[i])

\* C3: the returned catalog is a function of the three sets of names alone:
\* it is the one sequence that lists the names of default and vendor in
\* ascending byte order and then the custom/ names in ascending byte order,
\* so no reordering of a listing changes it.  On default {sssd, winbind},
\* vendor {winbind, local}, custom {mine} it is local, sssd, winbind,
\* custom/mine.
C3_OrderIndependent ==
    merged = "ids" =>
        LET cat == Catalog(ids) IN
        /\ Len(cat) = Cardinality(PlainSet) + Cardinality(CustomSet)
        /\ Range(cat) = PlainSet \cup CustomSet
        /\ \A i, j \in 1..Len(cat) : i < j =>
              \/ cat[i] \in PlainSet /\ cat[j] \in CustomSet
              \/ /\ (cat[i] \in PlainSet) = (cat[j] \in PlainSet)
                 /\ ByteLess(cat[i], cat[j])
        /\ ( /\ Range(profile) = { <<115, 115, 115, 100>>,
                                   <<119, 105, 110, 98, 105, 110, 100>> }
             /\ Range(vendor) = { <<119, 105, 110, 98, 105, 110, 100>>,
                                  <<108, 111, 99, 97, 108>> }
             /\ Range(custom) = { <<109, 105, 110, 101>> } )
           => cat = << <<108, 111, 99, 97, 108>>, <<115, 115, 115, 100>>,
                       <<119, 105, 110, 98, 105, 110, 100>>,
                       CustomPrefix \o <<109, 105, 110, 101>> >>

C3_Witness ==
    /\ merged = "ids"
    /\ profile = << <<119, 105, 110, 98, 105, 110, 100>>, <<115, 115, 115, 100>> >>
    /\ vendor = << <<119, 105, 110, 98, 105, 110, 100>>, <<108, 111, 99, 97, 108>> >>
    /\ custom = << <<109, 105, 110, 101>> >>
    /\ Len(Catalog(ids)) = 4

\* C4: when default and vendor share no name, the catalog holds one entry
\* per input entry, none is missing, and the terminator is the last slot of
\* the array, behind every entry.
C4_NothingDropped ==
    (merged = "ids" /\ Range(profile) \cap Range(vendor) = {}) =>
        LET cat == Catalog(ids) IN
        /\ Len(cat) = Len(profile) + Len(vendor) + Len(custom)
        /\ Len(ids) = Len(cat) + 1
        /\ ids[Len(ids)] = NULL
        /\ \A n \in PlainSet : Occurrences(cat, n) = 1
        /\ \A n \in CustomSet : Occurrences(cat, n) = 1

C4_Witness ==
    /\ merged = "ids"
    /\ Range(profile) \cap Range(vendor) = {}
    /\ profile # <<>> /\ vendor # <<>> /\ custom # <<>>
    /\ Len(Catalog(ids)) = Len(profile) + Len(vendor) + Len(custom)

(***************************************************************************)
(* Properties of check_content (under ContentSpec).                        *)
(***************************************************************************)
\* c is '#' text '\n' '#' text '\n' '\n' body, the texts holding no newline
PreambleThenBody(c, body) ==
    \E i, j \in 1..Len(c) :
        /\ i < j
        /\ c[1] = Hash[1]
        /\ c[i] = Newline[1] /\ \A k \in 1..(i - 1) : c[k] # Newline[1]
        /\ i + 1 <= Len(c) /\ c[i + 1] = Hash[1]
        /\ c[j] = Newline[1] /\ \A k \in (i + 1)..(j - 1) : c[k] # Newline[1]
        /\ j + 1 <= Len(c) /\ c[j + 1] = Newline[1]
        /\ SubSeq(c, j + 2, Len(c)) = body

\* C8: the content is judged valid exactly when it is two lines that begin
\* with '#', an empty line, and then the expected body byte for byte (a
\* NULL expected body being the empty one); what the two comment lines say
\* does not matter, and a third non-empty line in front of the body makes
\* the content invalid.
C8_ContentShape ==
    cmp # <<>> =>
        cmp[1] = PreambleThenBody(content, IF expected = NULL THEN <<>> ELSE expected)

\* "#\n#\nb\nb" against the body "b": the blank line is missing
C8_Witness ==
    /\ cmp = <<FALSE>>
    /\ content = <<35, 10, 35, 10, 98, 10, 98>>
    /\ expected = <<98>>

(***************************************************************************)
(* Properties of the verifier (under Spec).                                *)
(***************************************************************************)
\* a run of authselect_check_conf that found a record and compiled the profile
ConfiguredRun == op = "check_conf" /\ conf_ret = "EOK" /\ cat_ret = "EOK"
\* a run of authselect_check_conf that found no record: the leftover check
LeftoverRun == op = "check_conf" /\ conf_ret = "ENOENT"
\* a run of either operation in which the loader did not fail
VerifierRun ==
    \/ ConfiguredRun
    \/ LeftoverRun
    \/ op = "check_symlinks_presence"

\* the run ended with a result for the caller and no failure
RunSucceeded ==
    /\ is_valid # <<>>
    /\ ret = IF LeftoverRun THEN "ENOENT" ELSE "EOK"

GenPaths == { GENERATED_FILES[k].path : k \in DOMAIN GENERATED_FILES }
LinkPaths == { SYMLINK_FILES[k].name : k \in DOMAIN SYMLINK_FILES }

\* C5: NOT_CONFIGURED is the outcome only of a run that found no record; a
\* run that found one and could not compile the profile ends with an error
\* that is neither success nor NOT_CONFIGURED, and writes no validity.
C5_NotConfiguredOnlyWithoutRecord ==
    (op = "check_conf" /\ faults = {}) =>
        /\ (ret = "ENOENT" => conf_ret = "ENOENT")
        /\ (conf_ret = "EOK" /\ cat_ret # "EOK") =>
              (ret \notin {"EOK", "ENOENT"} /\ is_valid = <<>>)

StartsInspection(p) ==
    \/ p.probe = "read" /\ p.path \in GenPaths
    \/ p.probe = "lstat" /\ p.path \in LinkPaths

Inspected ==
    LET firsts == SelectSeq(probes, StartsInspection)
    IN  [i \in 1..Len(firsts) |-> firsts[i].path]

Mentions(path) == Cardinality({ i \in DOMAIN log : log[i].path = path })

\* C7: in a run that verifies a compiled profile and meets no fatal error,
\* every generated file and then every link is inspected, once each and in
\* the order of the tables, whatever the earlier ones were found to be; the
\* validity written is the conjunction of what each artifact is found to
\* be; and when no generated file is there the validity is false, each
\* missing file is reported and the links are still inspected and the
\* invalid ones reported.
C7_ScanNeverStops ==
    (ConfiguredRun /\ ret = "EOK") =>
        /\ Inspected = [k \in 1..(Len(GENERATED_FILES) + Len(SYMLINK_FILES)) |->
                          IF k <= Len(GENERATED_FILES) THEN GENERATED_FILES[k].path
                          ELSE SYMLINK_FILES[k - Len(GENERATED_FILES)].name]
        /\ is_valid =
              << /\ \A k \in DOMAIN GENERATED_FILES :
                       check_generated_file(Env, NoTrace, GENERATED_FILES[k].path,
                                            GENERATED_FILES[k].content).result
                 /\ \A k \in DOMAIN SYMLINK_FILES :
                       check_link(Env, NoTrace, SYMLINK_FILES[k].name,
                                  SYMLINK_FILES[k].dest).result >>
        /\ ( \A i \in DOMAIN probes : probes[i].probe = "read" => probes[i].res = "ENOENT" )
           => /\ is_valid = <<FALSE>>
              /\ \A g \in GenPaths : Mentions(g) >= 1
              /\ Len(log) >= Len(GENERATED_FILES)
              /\ \A k \in DOMAIN SYMLINK_FILES :
                    ~check_link(Env, NoTrace, SYMLINK_FILES[k].name,
                                SYMLINK_FILES[k].dest).result
                    => Mentions(SYMLINK_FILES[k].name) >= 1

\* no generated file is there, one link is in place and the other is not
C7_Witness ==
    /\ ConfiguredRun /\ ret = "EOK"
    /\ faults = {}
    /\ \A g \in GenPaths : fs[g] = None
    /\ fs[LinkX] = Lnk(GenX)
    /\ fs[LinkY] = None
    /\ is_valid = <<FALSE>>
    /\ Inspected = <<GenX, GenY, LinkX, LinkY>>

\* C9: in the leftover check a link path that holds a file, or a symbolic
\* link to anything but the expected destination, does not make the result
\* false: with no generated file left and no link to an expected
\* destination, the result is true.
C9_OtherLinksTolerated ==
    ( /\ LeftoverRun /\ faults = {} /\ RunSucceeded
      /\ \A g \in GenPaths : fs[g] = None
      /\ \A k \in DOMAIN SYMLINK_FILES :
            fs[SYMLINK_FILES[k].name] # Lnk(SYMLINK_FILES[k].dest) )
    => is_valid = <<TRUE>>

\* C10: in the leftover check a link path that holds a symbolic link to its
\* expected destination makes the result false, whether the generated file
\* is still there or not, and every link path is looked at.
C10_LeftoverLinkFlagged ==
    ( /\ LeftoverRun /\ faults = {} /\ RunSucceeded
      /\ \E k \in DOMAIN SYMLINK_FILES :
            fs[SYMLINK_FILES[k].name] = Lnk(SYMLINK_FILES[k].dest) )
    => /\ is_valid = <<FALSE>>
       /\ \A l \in LinkPaths :
             \E i \in DOMAIN probes : probes[i].probe = "access" /\ probes[i].path = l

\* a run of authselect_check_symlinks_presence
PresenceRun == op = "check_symlinks_presence"

\* C11: authselect_check_symlinks_presence says that conflicts exist
\* exactly when some link path holds an object of any type: a file, a
\* directory, a symbolic link, also one whose target is missing; and every
\* link path is examined, the ones after the first conflict too.
C11_ConflictIffAnyObject ==
    (PresenceRun /\ faults = {}) =>
        /\ ret = "EOK"
        /\ is_valid = << \E l \in LinkPaths : fs[l] # None >>
        /\ \A l \in LinkPaths :
              \E i \in DOMAIN probes : probes[i].probe = "access" /\ probes[i].path = l

\* every generated file is as the tool wrote it
GeneratedFilesIntact ==
    /\ fs[GenX] = Reg(GoodX, GeneratedPerms, AUTHSELECT_UID, AUTHSELECT_GID)
    /\ fs[GenY] = Reg(GoodY, GeneratedPerms, AUTHSELECT_UID, AUTHSELECT_GID)

\* C12: check_link finds a link valid exactly when its path holds a
\* symbolic link whose target is the expected destination; nothing at the
\* path, a file, or a link to anything else, a strict prefix of the
\* destination included, is invalid.  With the generated files intact the
\* validity of the configuration is that of its links.
C12_LinkValidIffExactTarget ==
    (ConfiguredRun /\ faults = {} /\ GeneratedFilesIntact) =>
        /\ ret = "EOK"
        /\ \A k \in DOMAIN SYMLINK_FILES :
              check_link(Env, NoTrace, SYMLINK_FILES[k].name, SYMLINK_FILES[k].dest).result
                  = (fs[SYMLINK_FILES[k].name] = Lnk(SYMLINK_FILES[k].dest))
        /\ is_valid = << \A k \in DOMAIN SYMLINK_FILES :
                            fs[SYMLINK_FILES[k].name] = Lnk(SYMLINK_FILES[k].dest) >>

\* the content read of generated file k succeeds and the content is the
\* expected one
ContentPasses(k) ==
    /\ sys_read(Env, GENERATED_FILES[k].path).err = "EOK"
    /\ check_expected_content(sys_read(Env, GENERATED_FILES[k].path).content,
                              GENERATED_FILES[k].content)

\* lstat finds at the path of generated file k, itself, a regular file with
\* the expected permission bits, owner and group
MetadataPasses(k) ==
    /\ Fault(Env, "lstat", GENERATED_FILES[k].path) = "EOK"
    /\ fs[GENERATED_FILES[k].path].type = "reg"
    /\ fs[GENERATED_FILES[k].path].perm = GeneratedPerms
    /\ fs[GENERATED_FILES[k].path].uid = AUTHSELECT_UID
    /\ fs[GENERATED_FILES[k].path].gid = AUTHSELECT_GID

\* the probes of the run made on path p, in order
ProbesOf(p) ==
    LET on(x) == x.path = p
        sel == SelectSeq(probes, on)
    IN  [i \in 1..Len(sel) |-> sel[i].probe]

\* the metadata of a generated file is read only after its content
\* passed; the file is valid exactly when content passed and the object at
\* the path itself is a regular file with the expected permission bits,
\* owner and group; a file gone between the content read and the metadata
\* read is invalid and the run does not fail.
C13_MetadataAfterContent ==
    (ConfiguredRun /\ ret = "EOK") =>
        /\ \A k \in DOMAIN GENERATED_FILES :
              ProbesOf(GENERATED_FILES[k].path) =
                  IF ContentPasses(k) THEN <<"read", "lstat">> ELSE <<"read">>
        /\ \A k \in DOMAIN GENERATED_FILES :
              check_generated_file(Env, NoTrace, GENERATED_FILES[k].path,
                                   GENERATED_FILES[k].content).result
                  = (ContentPasses(k) /\ MetadataPasses(k))
        /\ (\E k \in DOMAIN GENERATED_FILES : ~(ContentPasses(k) /\ MetadataPasses(k)))
              => is_valid = <<FALSE>>
        /\ ( /\ \A k \in DOMAIN GENERATED_FILES : ContentPasses(k) /\ MetadataPasses(k)
             /\ \A k \in DOMAIN SYMLINK_FILES :
                   check_link(Env, NoTrace, SYMLINK_FILES[k].name,
                              SYMLINK_FILES[k].dest).result )
              => is_valid = <<TRUE>>

\* a file gone between the two reads never makes the run fail
C13_GoneIsNotFatal ==
    ( /\ ConfiguredRun
      /\ \A x \in faults : x.probe = "lstat" /\ x.err = "ENOENT" /\ x.path \in GenPaths )
    => (ret = "EOK" /\ is_valid # <<>>)

\* C13: for one generated file the metadata is read only after the content
\* passed, the file is valid exactly when the object at the path itself is
\* a regular file with the expected permission bits, owner and group, and a
\* file gone between the two reads is invalid, not a failure of the run.
C13_GeneratedFileValidity == C13_MetadataAfterContent /\ C13_GoneIsNotFatal

\* an intact generated file is gone when its metadata is read, the other
\* is a symbolic link to a file with the expected content
C13_Witness ==
    /\ ConfiguredRun /\ ret = "EOK"
    /\ faults = {[probe |-> "lstat", path |-> GenY, err |-> "ENOENT"]}
    /\ fs[GenY] = Reg(GoodY, GeneratedPerms, AUTHSELECT_UID, AUTHSELECT_GID)
    /\ fs[GenX] = Lnk(OtherPath)
    /\ ContentPasses(1) /\ ContentPasses(2)
    /\ is_valid = <<FALSE>>
    /\ ProbesOf(GenX) = <<"read", "lstat">>
    /\ ProbesOf(GenY) = <<"read", "lstat">>

\* what a probe returns when it fails in a way the verifier does not expect
Unexpected(res) == res \notin {"EOK", "ENOENT", "EACCES"}

\* C14: a probe that fails with an error other than not-found or
\* permission-denied ends the run at the artifact it was made for: it is
\* the last probe of the run, so no later generated file or link is
\* inspected, the run returns that error unchanged and no validity is
\* written for the caller.
C14_UnexpectedErrorStopsRun ==
    VerifierRun =>
        \A i \in DOMAIN probes :
            Unexpected(probes[i].res) =>
                /\ i = Len(probes)
                /\ ret = probes[i].res
                /\ is_valid = <<>>
                /\ \A j \in DOMAIN log :
                      (log[j].msg \in {"Unable to stat", "Unable to read file",
                                       "Unable to read link destination",
                                       "Error while trying to access file"})
                      => log[j].path = probes[i].path

\* the generated files are intact and lstat of the first link fails: the
\* second link is not inspected
C14_Witness ==
    /\ ConfiguredRun
    /\ GeneratedFilesIntact
    /\ faults = {[probe |-> "lstat", path |-> LinkX, err |-> "EIO"]}
    /\ ret = "EIO"
    /\ is_valid = <<>>
    /\ Inspected = <<GenX, GenY, LinkX>>

====
